---- MODULE Spec2Model ----
(***************************************************************************)
(* Encrypted reports and match records of callisto.delivery.               *)
(*                                                                         *)
(* Report and MatchReport (models.py) keep a ciphertext and a salt; the    *)
(* key is supplied on every call and never stored.  The wizard's done()    *)
(* (wizard.py) creates or edits a Report.                                   *)
(*                                                                         *)
(* Cryptography is modelled symbolically: a SecretBox ciphertext carries   *)
(* the key it was sealed under and opens only under an equal key.  The key *)
(* derivation keeps the one structural property of PBKDF2-HMAC that is not *)
(* an accident of hashing: HMAC pads a key shorter than its block with NUL *)
(* bytes, so keys that differ only in trailing NULs derive the same key.   *)
(***************************************************************************)
EXTENDS Integers, Sequences, FiniteSets

\* ------------------------------------------------------------------ bounds
\* Saved Report rows, MatchReport rows ever created, and mutating calls.
MaxReports == 1
MaxMatches == 2
MaxTime == 2

\* ------------------------------------------------------------------ inputs
Users == {"u1", "u2"}
\* Keys and identifiers, as sequences of code points; 0 is NUL.
Keys == {<<97>>, <<97, 0>>, <<98>>}
\* Report texts, as sequences of code points (233 needs two UTF-8 bytes).
Texts == {<<65>>, <<233>>}
\* processed_answers of the wizard: lists of one-digit integers.
Answers == {<<>>, <<1>>}
\* get_random_string() and nacl.utils.random() draw from these.
Salts == {"s1", "s2"}
Nonces == {"n1", "n2"}
\* Values settings.PEPPER can hold.
Peppers == {"p1", "p2"}
\* Whether the installed PyNaCl derives its ValueError from CryptoError
\* (1.1.0 and later do, earlier releases do not).
NaclBuilds == BOOLEAN
NoSalt == ""
NoBytes == <<>>
NoTime == 0

\* SHA-256's block size in bytes: HMAC pads shorter keys to it.
BlockSize == 64

\* reports, matches: the rows of the two tables; nextMatchPk: the next
\* MatchReport primary key; PEPPER: settings.PEPPER; now: the clock.
\* last: the latest call, its arguments and its outcome.
\* sealed, sealedMatch: the arguments of the call that produced each row's
\* current ciphertext (history, read by no operation).
VARIABLES reports, matches, nextMatchPk, PEPPER, now, last, sealed, sealedMatch

vars == <<reports, matches, nextMatchPk, PEPPER, now, last, sealed, sealedMatch>>

\* ------------------------------------------------------------ primitives
\* str.encode('utf-8') for code points below 0x800.
RECURSIVE Utf8Encode(_)
Utf8Encode(text) ==
    IF text = <<>> THEN <<>>
    ELSE LET c == Head(text)
             b == IF c < 128 THEN <<c>>
                  ELSE <<192 + (c \div 64), 128 + (c % 64)>>
         IN  b \o Utf8Encode(Tail(text))

\* bytes.decode('utf-8') for the same range.
RECURSIVE Utf8Decode(_)
Utf8Decode(bytes) ==
    IF bytes = <<>> THEN <<>>
    ELSE IF bytes[1] < 128 THEN <<bytes[1]>> \o Utf8Decode(Tail(bytes))
    ELSE <<(bytes[1] - 192) * 64 + (bytes[2] - 128)>>
             \o Utf8Decode(Tail(Tail(bytes)))

\* HMAC's key block: a key of at most BlockSize bytes is padded with NULs.
\* (Longer keys are hashed first; Keys holds none.)
HmacKey(key) == key \o [i \in 1..(BlockSize - Len(key)) |-> 0]

\* django.utils.crypto.pbkdf2(key, salt, KEY_ITERATIONS, sha256): a function
\* of the HMAC key block and the salt, taken to be collision-free in both.
pbkdf2(key, salt) == <<HmacKey(Utf8Encode(key)), salt>>

\* SecretBox(key).encrypt(message, nonce): nonce || authenticated ciphertext.
SecretBoxEncrypt(key, message, nonce) ==
    <<nonce, [key |-> key, message |-> message]>>

\* SecretBox(key).decrypt(ciphertext): the message, or the exception raised
\* (PyNaCl's ValueError on an input too short to hold a nonce).
SecretBoxDecrypt(key, ciphertext) ==
    IF Len(ciphertext) < 2
    THEN [error |-> "ValueError", value |-> <<>>]
    ELSE IF ciphertext[2].key = key
    THEN [error |-> "", value |-> ciphertext[2].message]
    ELSE [error |-> "CryptoError", value |-> <<>>]

_encrypt_report(salt, key, report_text, nonce) ==
    LET stretched_key == pbkdf2(key, salt)
        message == Utf8Encode(report_text)
    IN  SecretBoxEncrypt(stretched_key, message, nonce)

\* _decrypt_report returning the decrypted bytes without decoding them.
_decrypt_report_undecoded(salt, key, encrypted) ==
    SecretBoxDecrypt(pbkdf2(key, salt), encrypted)

_decrypt_report(salt, key, encrypted) ==
    LET stretched_key == pbkdf2(key, salt)
        decrypted == SecretBoxDecrypt(stretched_key, encrypted)
    IN  IF decrypted.error = ""
        THEN [error |-> "", value |-> Utf8Decode(decrypted.value)]
        ELSE decrypted

_pepper(encrypted_report, pepper, nonce) ==
    SecretBoxEncrypt(pepper, encrypted_report, nonce)

_unpepper(peppered_report, pepper) ==
    SecretBoxDecrypt(pepper, peppered_report)

\* ------------------------------------------------------------------ Report
\* Report(owner=user) before any encryption.
NewReport(user) ==
    [owner |-> user, encrypted |-> NoBytes, salt |-> NoSalt,
     last_edited |-> NoTime, autosaved |-> FALSE, match_found |-> FALSE]

\* encrypt_report drawing a salt on every call.
encrypt_report_resalted(self, report_text, key, edit, autosave, random_string, nonce, t) ==
    [self EXCEPT !.salt = random_string,
                 !.last_edited = IF self.salt # NoSalt /\ edit THEN t ELSE @,
                 !.autosaved = autosave,
                 !.encrypted = _encrypt_report(random_string, key, report_text, nonce)]

\* Report.encrypt_report; random_string and nonce are the two random draws,
\* t is timezone.now().
encrypt_report(self, report_text, key, edit, autosave, random_string, nonce, t) ==
    LET salt == IF self.salt = NoSalt THEN random_string ELSE self.salt
        last_edited == IF self.salt # NoSalt /\ edit THEN t
                       ELSE self.last_edited
    IN  [self EXCEPT !.salt = salt,
                     !.last_edited = last_edited,
                     !.autosaved = autosave,
                     !.encrypted = _encrypt_report(salt, key, report_text, nonce)]

\* Report.decrypted_report: the text, or the error of the decryption.
decrypted_report(self, key) == _decrypt_report(self.salt, key, self.encrypted)

\* Deleting matchreport_set.first() alone.
DeleteFirstMatchReport(ms, r) ==
    LET mine == {x \in DOMAIN ms : ms[x].report = r}
        first == {x \in mine : \A y \in mine : x <= y}
    IN  [m \in DOMAIN ms \ first |-> ms[m]]

\* self.matchreport_set.all().delete()
DeleteMatchReports(ms, r) ==
    [m \in {x \in DOMAIN ms : ms[x].report # r} |-> ms[m]]

\* Report.withdraw_from_matching, on the rows of both tables.
WithdrawReports(rs, r) == [rs EXCEPT ![r].match_found = FALSE]

\* json.dumps(answers, sort_keys=True) of a list of one-digit integers.
RECURSIVE JsonItems(_)
JsonItems(answers) ==
    IF answers = <<>> THEN <<>>
    ELSE IF Len(answers) = 1 THEN <<48 + answers[1]>>
    ELSE <<48 + answers[1], 44, 32>> \o JsonItems(Tail(answers))

json_dumps(answers) == <<91>> \o JsonItems(answers) \o <<93>>

\* ------------------------------------------------------------- MatchReport
\* MatchReport(report=r) before any encryption.
NewMatchReport(r) ==
    [report |-> r, encrypted |-> NoBytes, salt |-> NoSalt, seen |-> FALSE]

\* MatchReport.encrypt_match_report; random_string, nonce and pepper_nonce are
\* the three random draws.
encrypt_match_report(self, report_text, key, random_string, nonce, pepper, pepper_nonce) ==
    [self EXCEPT
        !.salt = random_string,
        !.encrypted = _pepper(_encrypt_report(random_string, key, report_text, nonce),
                              pepper, pepper_nonce)]

\* get_match decrypting without the row's salt.
get_match_unsalted(self, identifier, pepper, value_error_is_crypto_error) ==
    LET unpeppered == _unpepper(self.encrypted, pepper)
        decrypted == IF unpeppered.error # "" THEN unpeppered
                     ELSE _decrypt_report(NoSalt, identifier, unpeppered.value)
    IN  IF decrypted.error = ""
        THEN [result |-> "return", value |-> decrypted.value, self |-> self]
        ELSE [result |-> "None", value |-> <<>>, self |-> self]

\* get_match without its except clause.
get_match_uncaught(self, identifier, pepper, value_error_is_crypto_error) ==
    LET unpeppered == _unpepper(self.encrypted, pepper)
        decrypted == IF unpeppered.error # "" THEN unpeppered
                     ELSE _decrypt_report(self.salt, identifier, unpeppered.value)
    IN  IF decrypted.error = ""
        THEN [result |-> "return", value |-> decrypted.value, self |-> self]
        ELSE [result |-> decrypted.error, value |-> <<>>, self |-> self]

\* MatchReport.get_match: what the call returns or raises, and the row after.
\* `except CryptoError` catches PyNaCl's ValueError (raised on a row never
\* encrypted) only in the builds that derive it from CryptoError.
get_match(self, identifier, pepper, value_error_is_crypto_error) ==
    LET unpeppered == _unpepper(self.encrypted, pepper)
        decrypted == IF unpeppered.error # "" THEN unpeppered
                     ELSE _decrypt_report(self.salt, identifier, unpeppered.value)
        caught == \/ decrypted.error = "CryptoError"
                  \/ decrypted.error = "ValueError" /\ value_error_is_crypto_error
    IN  IF decrypted.error = ""
        THEN [result |-> "return", value |-> decrypted.value, self |-> self]
        ELSE IF caught
        THEN [result |-> "None", value |-> <<>>, self |-> self]
        ELSE [result |-> decrypted.error, value |-> <<>>, self |-> self]

\* ------------------------------------------------------------------- wizard
\* EncryptedFormBaseWizard.done up to report.save(): the outcome and the row
\* to save.  object_to_edit is a row of reports, or <<>> for None; "forbidden"
\* is the HttpResponseForbidden or HttpResponseNotFound returned to another
\* user.
done(user, object_to_edit, key, answers, random_string, nonce, t) ==
    IF object_to_edit # <<>> /\ object_to_edit[1].owner # user
    THEN [result |-> "forbidden", report |-> <<>>]
    ELSE LET report == IF object_to_edit # <<>> THEN object_to_edit[1]
                       ELSE NewReport(user)
             report_text == json_dumps(answers)
         IN  [result |-> "saved",
              report |-> <<encrypt_report(report, report_text, key, FALSE, FALSE,
                                          random_string, nonce, t)>>]

\* --------------------------------------------------------------- bookkeeping
NoCall == [op |-> "none", id |-> 0, user |-> "", key |-> <<>>, text |-> <<>>,
           edit |-> FALSE, autosave |-> FALSE,
           result |-> "", value |-> <<>>, matched |-> {}]

Call(op, id) == [NoCall EXCEPT !.op = op, !.id = id]

NoArgs == [text |-> <<>>, key |-> <<>>, pepper |-> ""]

\* ------------------------------------------------------------------ actions
\* Report.objects.create(owner=user)
CreateReport(user) ==
    /\ now <= MaxTime
    /\ Len(reports) < MaxReports
    /\ reports' = Append(reports, NewReport(user))
    /\ sealed' = Append(sealed, NoArgs)
    /\ last' = [Call("create", Len(reports) + 1) EXCEPT !.user = user]
    /\ now' = now + 1
    /\ UNCHANGED <<matches, nextMatchPk, PEPPER, sealedMatch>>

\* report.encrypt_report(report_text, key, edit, autosave); report.save()
EncryptReport(r, report_text, key, edit, autosave, random_string, nonce) ==
    /\ now <= MaxTime
    /\ reports' = [reports EXCEPT ![r] =
           encrypt_report(@, report_text, key, edit, autosave,
                          random_string, nonce, now)]
    /\ sealed' = [sealed EXCEPT ![r] =
           [NoArgs EXCEPT !.text = report_text, !.key = key]]
    /\ last' = [Call("encrypt_report", r) EXCEPT
                  !.key = key, !.text = report_text, !.edit = edit,
                  !.autosave = autosave]
    /\ now' = now + 1
    /\ UNCHANGED <<matches, nextMatchPk, PEPPER, sealedMatch>>

\* report.decrypted_report(key)
DecryptReport(r, key) ==
    /\ LET got == decrypted_report(reports[r], key)
       IN  last' = [Call("decrypted_report", r) EXCEPT
                       !.key = key,
                       !.result = IF got.error = "" THEN "return"
                                  ELSE got.error,
                       !.value = got.value]
    /\ UNCHANGED <<reports, matches, nextMatchPk, PEPPER, now, sealed, sealedMatch>>

\* report.withdraw_from_matching(); report.save()
WithdrawFromMatching(r) ==
    /\ matches' = DeleteMatchReports(matches, r)
    /\ sealedMatch' = DeleteMatchReports(sealedMatch, r)
    /\ reports' = WithdrawReports(reports, r)
    /\ last' = Call("withdraw_from_matching", r)
    /\ UNCHANGED <<nextMatchPk, PEPPER, now, sealed>>

\* wizard.done() for request.user = user; e = 0 is a wizard with no
\* object_to_edit, otherwise e is the row being edited.
Done(user, e, key, answers, random_string, nonce) ==
    /\ now <= MaxTime
    /\ e = 0 => Len(reports) < MaxReports
    /\ LET object_to_edit == IF e = 0 THEN <<>> ELSE <<reports[e]>>
           out == done(user, object_to_edit, key, answers, random_string, nonce, now)
           id == IF e = 0 THEN Len(reports) + 1 ELSE e
           args == [NoArgs EXCEPT !.text = json_dumps(answers), !.key = key]
       IN  /\ last' = [Call("done", id) EXCEPT
                          !.user = user, !.key = key,
                          !.text = json_dumps(answers), !.edit = (e # 0),
                          !.result = out.result]
           /\ IF out.result # "saved"
              THEN UNCHANGED <<reports, sealed>>
              ELSE IF e = 0
              THEN /\ reports' = Append(reports, out.report[1])
                   /\ sealed' = Append(sealed, args)
              ELSE /\ reports' = [reports EXCEPT ![e] = out.report[1]]
                   /\ sealed' = [sealed EXCEPT ![e] = args]
    /\ now' = now + 1
    /\ UNCHANGED <<matches, nextMatchPk, PEPPER, sealedMatch>>

\* A matching submission: MatchReport(report=r), encrypt_match_report, save().
SubmitMatch(r, report_text, key, random_string, nonce, pepper_nonce) ==
    /\ nextMatchPk <= MaxMatches
    /\ LET row == encrypt_match_report(NewMatchReport(r), report_text, key,
                                       random_string, nonce, PEPPER, pepper_nonce)
           pks == DOMAIN matches \cup {nextMatchPk}
       IN  /\ matches' = [m \in pks |->
                             IF m = nextMatchPk THEN row ELSE matches[m]]
           /\ sealedMatch' = [m \in pks |->
                             IF m = nextMatchPk
                             THEN [report |-> r, text |-> report_text,
                                   key |-> key, pepper |-> PEPPER]
                             ELSE sealedMatch[m]]
           /\ last' = [Call("submit", nextMatchPk) EXCEPT
                          !.key = key, !.text = report_text]
    /\ nextMatchPk' = nextMatchPk + 1
    /\ UNCHANGED <<reports, PEPPER, now, sealed>>

\* match_report.encrypt_match_report(report_text, key); save(), on a saved row.
EncryptMatchReport(m, report_text, key, random_string, nonce, pepper_nonce) ==
    /\ matches' = [matches EXCEPT ![m] =
           encrypt_match_report(@, report_text, key, random_string,
                                nonce, PEPPER, pepper_nonce)]
    /\ sealedMatch' = [sealedMatch EXCEPT ![m] =
           [@ EXCEPT !.text = report_text, !.key = key, !.pepper = PEPPER]]
    /\ last' = [Call("encrypt_match_report", m) EXCEPT
                   !.key = key, !.text = report_text]
    /\ UNCHANGED <<reports, nextMatchPk, PEPPER, now, sealed>>

\* match_report.get_match(identifier); save()
GetMatch(m, identifier, build) ==
    /\ LET out == get_match(matches[m], identifier, PEPPER, build)
       IN  /\ matches' = [matches EXCEPT ![m] = out.self]
           /\ last' = [Call("get_match", m) EXCEPT
                          !.key = identifier, !.result = out.result,
                          !.value = out.value]
    /\ UNCHANGED <<reports, nextMatchPk, PEPPER, now, sealed, sealedMatch>>

\* The plaintexts get_match(identifier) returns over a pool of rows.
Matched(pool, identifier, pepper, build) ==
    {get_match(pool[m], identifier, pepper, build).value :
        m \in {x \in DOMAIN pool :
                 get_match(pool[x], identifier, pepper, build).result = "return"}}

\* A scan of the whole pool: get_match(identifier) on every row.
ScanMatches(identifier, build) ==
    /\ matches # <<>>
    /\ last' = [Call("scan_matches", 0) EXCEPT
                   !.key = identifier,
                   !.matched = Matched(matches, identifier, PEPPER, build)]
    /\ matches' = [m \in DOMAIN matches |->
                      get_match(matches[m], identifier, PEPPER, build).self]
    /\ UNCHANGED <<reports, nextMatchPk, PEPPER, now, sealed, sealedMatch>>

\* The matching run flags the report of a matched row.
MarkMatchFound(r) ==
    /\ \E m \in DOMAIN matches : matches[m].report = r
    /\ ~reports[r].match_found
    /\ reports' = [reports EXCEPT ![r].match_found = TRUE]
    /\ last' = Call("match_found", r)
    /\ UNCHANGED <<matches, nextMatchPk, PEPPER, now, sealed, sealedMatch>>

\* The process is restarted with another settings.PEPPER.
ChangePepper(pepper) ==
    /\ pepper # PEPPER
    /\ PEPPER' = pepper
    /\ last' = Call("pepper", 0)
    /\ UNCHANGED <<reports, matches, nextMatchPk, now, sealed, sealedMatch>>

\* ----------------------------------------------------------- specifications
\* ReportSpec: the life of Report rows (creation, encryption, decryption,
\* the wizard, withdrawal), with at most MaxTime writes.
InitReport ==
    /\ reports = <<>>
    /\ sealed = <<>>
    /\ matches = <<>>
    /\ sealedMatch = <<>>
    /\ nextMatchPk = 1
    /\ PEPPER = "p1"
    /\ now = 1
    /\ last = NoCall

NextReport ==
    \/ \E user \in Users : CreateReport(user)
    \/ \E r \in DOMAIN reports, report_text \in Texts, key \in Keys,
          edit \in BOOLEAN, autosave \in BOOLEAN,
          random_string \in Salts, nonce \in Nonces :
          EncryptReport(r, report_text, key, edit, autosave, random_string, nonce)
    \/ \E r \in DOMAIN reports, key \in Keys : DecryptReport(r, key)
    \/ \E r \in DOMAIN reports : WithdrawFromMatching(r)
    \/ \E user \in Users, e \in {0} \cup DOMAIN reports, key \in Keys,
          answers \in Answers, random_string \in Salts, nonce \in Nonces :
          Done(user, e, key, answers, random_string, nonce)

ReportSpec == InitReport /\ [][NextReport]_vars

\* Two reports of two users, each already encrypted.
EncryptedReports ==
    <<encrypt_report(NewReport("u1"), <<65>>, <<97>>, FALSE, FALSE, "s1", "n1", 1),
      encrypt_report(NewReport("u2"), <<233>>, <<98>>, FALSE, FALSE, "s2", "n1", 1)>>

EncryptedArgs ==
    <<[NoArgs EXCEPT !.text = <<65>>, !.key = <<97>>],
      [NoArgs EXCEPT !.text = <<233>>, !.key = <<98>>]>>

\* MatchSpec: submissions to matching under one report, trial decryption and
\* scans, with the pepper secret liable to change between calls.  Every row
\* is encrypted once, when it is submitted.
InitMatch ==
    /\ reports = SubSeq(EncryptedReports, 1, 1)
    /\ sealed = SubSeq(EncryptedArgs, 1, 1)
    /\ matches = <<>>
    /\ sealedMatch = <<>>
    /\ nextMatchPk = 1
    /\ PEPPER \in Peppers
    /\ now = 2
    /\ last = NoCall

\* The two nonces of a row are fixed here: no operation reads a nonce.
NextMatch ==
    \/ \E r \in DOMAIN reports, report_text \in Texts, key \in Keys,
          random_string \in Salts :
          SubmitMatch(r, report_text, key, random_string, "n1", "n2")
    \/ \E m \in DOMAIN matches, identifier \in Keys, build \in NaclBuilds :
          GetMatch(m, identifier, build)
    \/ \E identifier \in Keys, build \in NaclBuilds : ScanMatches(identifier, build)
    \/ \E pepper \in Peppers : ChangePepper(pepper)

MatchSpec == InitMatch /\ [][NextMatch]_vars

\* MatchRowSpec: the life of MatchReport rows under two reports: submission,
\* a further encryption, the match-found flag, withdrawal from matching.
InitMatchRow ==
    /\ reports = EncryptedReports
    /\ sealed = EncryptedArgs
    /\ matches = <<>>
    /\ sealedMatch = <<>>
    /\ nextMatchPk = 1
    /\ PEPPER = "p1"
    /\ now = 2
    /\ last = NoCall

NextMatchRow ==
    \/ \E r \in DOMAIN reports, report_text \in Texts :
          SubmitMatch(r, report_text, <<97>>, "s1", "n1", "n2")
    \/ \E m \in DOMAIN matches, report_text \in Texts, random_string \in Salts,
          nonce \in Nonces :
          EncryptMatchReport(m, report_text, <<97>>, random_string, nonce, "n2")
    \/ \E r \in DOMAIN reports : MarkMatchFound(r)
    \/ \E r \in DOMAIN reports : WithdrawFromMatching(r)

MatchRowSpec == InitMatchRow /\ [][NextMatchRow]_vars

\* -------------------------------------------------------------- properties
\* A key without its trailing NUL characters.
RECURSIVE TrimNul(_)
TrimNul(key) ==
    IF key # <<>> /\ key[Len(key)] = 0
    THEN TrimNul(SubSeq(key, 1, Len(key) - 1))
    ELSE key

\* Two keys that are equal up to trailing NUL characters.
SameUpToNul(k1, k2) == TrimNul(k1) = TrimNul(k2)

\* The rows of the pool whose ciphertext was peppered with the secret in use.
AllUnderPepper == \A m \in DOMAIN matches : sealedMatch[m].pepper = PEPPER

\* C1 as stated: a scan of a pool peppered with the secret in use returns
\* exactly the plaintexts of the rows submitted under the scanned identifier.
C1_ScanExactIdentifier ==
    (last.op = "scan_matches" /\ AllUnderPepper) =>
        last.matched = {sealedMatch[m].text :
                          m \in {x \in DOMAIN matches : sealedMatch[x].key = last.key}}

\* C1 amended: a scan of a pool peppered with the secret in use returns exactly
\* the plaintexts of the rows whose identifier equals the scanned one up to
\* trailing NUL characters: all of them, none of the others, none when no row
\* qualifies.
C1_ScanUpToNul ==
    (last.op = "scan_matches" /\ AllUnderPepper) =>
        last.matched = {sealedMatch[m].text :
                          m \in {x \in DOMAIN matches :
                                   SameUpToNul(sealedMatch[x].key, last.key)}}

\* A scan has returned two plaintexts, of two rows submitted under its identifier.
C1_Witness ==
    /\ last.op = "scan_matches"
    /\ AllUnderPepper
    /\ Cardinality(last.matched) = 2
    /\ \A m \in DOMAIN matches : sealedMatch[m].key = last.key

\* C2 as stated: on an encrypted report, decrypted_report(K2) returns the text
\* of the latest encrypt_report(P, K1) when K2 = K1 and raises CryptoError when
\* K2 differs from K1.
C2_ExactKey ==
    (last.op = "decrypted_report" /\ reports[last.id].encrypted # NoBytes) =>
        IF last.key = sealed[last.id].key
        THEN last.result = "return" /\ last.value = sealed[last.id].text
        ELSE last.result = "CryptoError"

C2_Outcome ==
    (last.op = "decrypted_report" /\ reports[last.id].encrypted # NoBytes) =>
        IF SameUpToNul(last.key, sealed[last.id].key)
        THEN last.result = "return" /\ last.value = sealed[last.id].text
        ELSE last.result = "CryptoError" /\ last.value = <<>>

C2_Frame ==
    (last'.op = "decrypted_report" /\ last'.result # "return") =>
        reports' = reports

\* C2 amended: on an encrypted report, decrypted_report(K2) returns the text of
\* the latest encrypt_report(P, K1) when K2 equals K1 up to trailing NUL
\* characters, and raises CryptoError otherwise; it returns no other text, and
\* a failed decryption leaves every row as it was.
C2_RoundTrip == []C2_Outcome /\ [][C2_Frame]_vars

\* The text with a two-byte character has been returned under its own key.
C2_Witness ==
    /\ last.op = "decrypted_report"
    /\ last.result = "return"
    /\ last.key = sealed[last.id].key
    /\ last.value = <<233>>

C3_SaltSet ==
    last.op = "encrypt_report" => reports[last.id].salt # NoSalt

C3_SaltKept ==
    \A r \in DOMAIN reports :
        reports[r].salt # NoSalt => reports'[r].salt = reports[r].salt

\* C3: encrypt_report leaves the report with a salt, and a report's salt, once
\* set, is the same after every step.
C3_SaltStable == []C3_SaltSet /\ [][C3_SaltKept]_vars

\* A report that had a salt has been encrypted again, as an edit.
C3_Witness ==
    /\ last.op = "encrypt_report"
    /\ reports[last.id].last_edited # NoTime

\* C4: a step that replaces the ciphertext of an encrypted report is a call
\* with a key that decrypts the ciphertext it replaces and, for the wizard, by
\* the report's owner.
C4_ReplacedUnderItsKey ==
    [][\A r \in DOMAIN reports :
          (reports[r].encrypted # NoBytes
              /\ reports'[r].encrypted # reports[r].encrypted) =>
             /\ decrypted_report(reports[r], last'.key).error = ""
             /\ last'.op = "done" => last'.user = reports[r].owner]_vars

\* C5: get_match leaves the row seen when it returns a plaintext, and leaves
\* the seen flag as it was when it returns None.
C5_SeenOnMatch ==
    [][last'.op = "get_match" =>
          IF last'.result = "return"
          THEN matches'[last'.id].seen
          ELSE matches'[last'.id].seen = matches[last'.id].seen]_vars

\* C6: encrypt_report leaves last_edited as it was when called with autosave
\* or on a report without a salt, and sets it to the time of the call when
\* called as an edit, without autosave, on a report with a salt.
C6_EditTimestamp ==
    [][last'.op = "encrypt_report" =>
          LET before == reports[last'.id]
              after == reports'[last'.id]
          IN  /\ last'.autosave => after.last_edited = before.last_edited
              /\ before.salt = NoSalt => after.last_edited = before.last_edited
              /\ (before.salt # NoSalt /\ last'.edit /\ ~last'.autosave) =>
                     after.last_edited = now]_vars

\* C7: done() on an encrypted report owned by the requesting user saves that
\* same row, with the salt it had, a ciphertext of the submitted answers under
\* the submitted key, and last_edited set to the time of the call.
C7_EditInPlace ==
    [][(last'.op = "done" /\ last'.edit /\ last'.result = "saved"
           /\ reports[last'.id].salt # NoSalt) =>
          LET before == reports[last'.id]
              after == reports'[last'.id]
              opened == decrypted_report(after, last'.key)
          IN  /\ Len(reports') = Len(reports)
              /\ after.owner = before.owner
              /\ after.salt = before.salt
              /\ opened.error = "" /\ opened.value = last'.text
              /\ after.last_edited = now]_vars

\* C8: withdraw_from_matching(r) leaves r without match rows and with
\* match_found false, leaves r's ciphertext, salt and every other report as
\* they were, leaves the match rows of other reports as they were, and a
\* second call changes nothing.
C8_Withdraw ==
    [][last'.op = "withdraw_from_matching" =>
          LET r == last'.id
          IN  /\ \A m \in DOMAIN matches' : matches'[m].report # r
              /\ ~reports'[r].match_found
              /\ Len(reports') = Len(reports)
              /\ reports' = [reports EXCEPT ![r].match_found = FALSE]
              /\ \A m \in DOMAIN matches :
                    matches[m].report # r =>
                       m \in DOMAIN matches' /\ matches'[m] = matches[m]
              /\ DeleteMatchReports(matches', r) = matches'
              /\ WithdrawReports(reports', r) = reports']_vars

\* A withdrawal has deleted match rows and left those of the other report.
C8_Witness ==
    /\ last.op = "withdraw_from_matching"
    /\ DOMAIN matches # {}
    /\ Cardinality(DOMAIN matches) < nextMatchPk - 1

\* C9 as stated: get_match returns a plaintext or None, and None whenever the
\* identifier differs from the row's or the pepper in use differs from the
\* row's; a scan returns the plaintexts of the other rows all the same.
C9_NoneOnOtherIdentifier ==
    /\ last.op = "get_match" =>
          /\ last.result \in {"return", "None"}
          /\ last.key # sealedMatch[last.id].key => last.result = "None"
          /\ sealedMatch[last.id].pepper # PEPPER => last.result = "None"
    /\ last.op = "scan_matches" =>
          last.matched = {sealedMatch[m].text :
                            m \in {x \in DOMAIN matches :
                                     /\ sealedMatch[x].pepper = PEPPER
                                     /\ sealedMatch[x].key = last.key}}

\* C9 amended: get_match returns a plaintext or None and raises nothing; it
\* returns None whenever the identifier differs from the row's by more than
\* trailing NUL characters or the pepper in use differs from the row's; a scan
\* returns the plaintexts of the other rows all the same.
C9_FailuresAreNoMatch ==
    /\ last.op = "get_match" =>
          /\ last.result \in {"return", "None"}
          /\ ~SameUpToNul(last.key, sealedMatch[last.id].key) => last.result = "None"
          /\ sealedMatch[last.id].pepper # PEPPER => last.result = "None"
    /\ last.op = "scan_matches" =>
          last.matched = {sealedMatch[m].text :
                            m \in {x \in DOMAIN matches :
                                     /\ sealedMatch[x].pepper = PEPPER
                                     /\ SameUpToNul(sealedMatch[x].key, last.key)}}

\* A scan under the right identifier has passed over a row peppered with
\* another secret and returned the plaintext of a row peppered with this one.
C9_Witness ==
    /\ last.op = "scan_matches"
    /\ \E m1, m2 \in DOMAIN matches :
          /\ sealedMatch[m1].key = last.key
          /\ sealedMatch[m2].key = last.key
          /\ sealedMatch[m1].pepper # PEPPER
          /\ sealedMatch[m2].pepper = PEPPER
          /\ sealedMatch[m1].text # sealedMatch[m2].text
          /\ last.matched = {sealedMatch[m2].text}

\* C10: the salt of a match row, once set, is the same after every step that
\* keeps the row.
C10_MatchSaltKept ==
    [][\A m \in DOMAIN matches \cap DOMAIN matches' :
          matches[m].salt # NoSalt => matches'[m].salt = matches[m].salt]_vars

====
